---- MODULE Spec2Model ----
(***************************************************************************)
(* CLA-dwight (server.mjs): the signature cache and its reload engine.     *)
(*                                                                         *)
(* The service is one Node.js process: every handler runs to its next      *)
(* `await` without interruption, and handlers interleave only at awaits.   *)
(* One action of this module is one such uninterrupted run: the completion *)
(* of an awaited I/O call followed by everything the code does up to the   *)
(* next await (the continuation of `await globalReload(...)` in a route    *)
(* handler included).                                                      *)
(***************************************************************************)
EXTENDS Integers, Sequences, FiniteSets, TLC

\* ------------------------------------------------------------------ bounds
MaxReq == 2      \* HTTP requests accepted after startup
MaxEpoch == 1    \* changes of the upstream data during the run

\* ------------------------------------------------------------ JS values
Null == [tag |-> "null"]          \* null / not yet assigned
Undefined == 0                    \* an absent timestamp property

\* ------------------------------------------------------------ sorting
\* a < b on two timestamp strings, either of which may be undefined
\* (a relational comparison with undefined is false)
Lt(a, b) == a # Undefined /\ b # Undefined /\ a < b

\* Order by signed date descending, then version date descending
signatureComparer(a, b) ==
    IF Lt(a.created_at, b.created_at) THEN 1
    ELSE IF a.created_at # b.created_at THEN 0 - 1
    ELSE IF Lt(a.gist_committed_at, b.gist_committed_at) THEN 1
    ELSE IF a.gist_committed_at # b.gist_committed_at THEN 0 - 1
    ELSE IF Lt(a.updated_at, b.updated_at) THEN 1
    ELSE IF a.updated_at # b.updated_at THEN 0 - 1
    ELSE 0

\* position at which the stable insertion of x into the sorted list s puts it:
\* after the last element that does not compare greater than x
RECURSIVE InsertPos(_, _, _)
InsertPos(s, x, k) ==
    IF k = 0 THEN 0
    ELSE IF signatureComparer(x, s[k]) < 0 THEN InsertPos(s, x, k - 1)
    ELSE k

InsertSorted(s, x) ==
    LET k == InsertPos(s, x, Len(s))
    IN  SubSeq(s, 1, k) \o <<x>> \o SubSeq(s, k + 1, Len(s))

\* Array.prototype.sort(signatureComparer): a stable sort
RECURSIVE Sort(_)
Sort(s) ==
    IF Len(s) <= 1 THEN s
    ELSE InsertSorted(Sort(SubSeq(s, 1, Len(s) - 1)), s[Len(s)])

\* ------------------------------------------------------------ signee maps
\* A signee map object: obj is the identity of the Map object (the number of
\* the activation that created it), entries its key -> array content,
\* timestamp its `timestamp` property (the Date at which that activation
\* built it, named by the activation's number).
NewMap(id) == [tag |-> "map", obj |-> id, entries |-> <<>>, timestamp |-> id]

Has(entries, u) == u \in DOMAIN entries

Put(entries, u, list) ==
    [k \in DOMAIN entries \cup {u} |-> IF k = u THEN list ELSE entries[k]]

\* addLocalSignature that leaves the map as it is
addLocalSignatureNoop(map, signature, sort) == map

addLocalSignature(map, signature, sort) ==
    IF Has(map.entries, signature.user)
    THEN LET pushed == Append(map.entries[signature.user], signature)
         IN  [map EXCEPT !.entries = Put(@, signature.user,
                                         IF sort THEN Sort(pushed) ELSE pushed)]
    ELSE [map EXCEPT !.entries = Put(@, signature.user, <<signature>>)]

\* for (const signature of signatures) addLocalSignature(signees, signature, true)
RECURSIVE AddAll(_, _)
AddAll(map, signatures) ==
    IF signatures = <<>> THEN map
    ELSE AddAll(addLocalSignature(map, Head(signatures), TRUE), Tail(signatures))

\* values.flat().reduce(...): group by user in arrival order
\* a grouping that keeps the last signature of every user only
RECURSIVE GroupLast(_, _)
GroupLast(entries, signatures) ==
    IF signatures = <<>> THEN entries
    ELSE GroupLast(Put(entries, Head(signatures).user, <<Head(signatures)>>),
                   Tail(signatures))

RECURSIVE Group(_, _)
Group(entries, signatures) ==
    IF signatures = <<>> THEN entries
    ELSE LET s == Head(signatures)
         IN  Group(Put(entries, s.user,
                       IF Has(entries, s.user) THEN Append(entries[s.user], s)
                       ELSE <<s>>),
                   Tail(signatures))

RECURSIVE Flat(_)
Flat(lists) == IF lists = <<>> THEN <<>> ELSE Head(lists) \o Flat(Tail(lists))

\* getSignees that writes its build time into every signature
BuildSigneesStamped(id, perVersionSignatures) ==
    LET grouped == Group(<<>>, Flat(perVersionSignatures))
    IN  [NewMap(id) EXCEPT
            !.entries = [u \in DOMAIN grouped |->
                            [k \in 1..Len(grouped[u]) |->
                                [Sort(grouped[u])[k] EXCEPT !.updated_at = id + 1]]]]

\* the part of getSignees after the last getSignatures call has returned
BuildSignees(id, perVersionSignatures) ==
    LET grouped == Group(<<>>, Flat(perVersionSignatures))
    IN  [NewMap(id) EXCEPT
            !.entries = [u \in DOMAIN grouped |-> Sort(grouped[u])]]

\* every signature of a map, as a set
SigsOf(map) ==
    IF map = Null THEN {}
    ELSE UNION {{map.entries[u][i] : i \in 1..Len(map.entries[u])} :
                u \in DOMAIN map.entries}

\* ------------------------------------------------------------ upstream
\* The CLA assistant's data.  The gist has one version at epoch 0 and two
\* from epoch 1 on (history newest first); alice signed version v1, later
\* alice and bob signed v2, and at epoch 2 alice's v1 signature is revoked.
HistoryAt(e) ==
    IF e = 0 THEN << [version |-> "v1", committed_at |-> 1, url |-> "gist/v1"] >>
    ELSE << [version |-> "v2", committed_at |-> 2, url |-> "gist/v2"],
            [version |-> "v1", committed_at |-> 1, url |-> "gist/v1"] >>

RawSig(id, u, c, upd, rev, v) ==
    [_id |-> id, user |-> u, created_at |-> c, updated_at |-> upd,
     revoked_at |-> rev, gist_version |-> v,
     custom_fields |-> [employer |-> IF id = "u1" THEN "" ELSE "acme"]]

\* the response of /cla/getAll for one version
GetAllAt(e, v) ==
    IF v = "v1"
    THEN << IF e >= 2 THEN RawSig("u1", "alice", 1, 3, 3, "v1")
            ELSE RawSig("u1", "alice", 1, 1, Undefined, "v1") >>
    ELSE IF e >= 1
         THEN << RawSig("u2", "alice", 1, 2, Undefined, "v2"),
                 RawSig("u3", "bob", 2, 3, Undefined, "v2") >>
         ELSE << >>

\* ------------------------------------------------------------ CLA assistant
\* the organization's credential (line 88)
GITHUB_ORGTOKEN == "ghp_secret"

\* the body of the request to /cla/getGist (lines 571-574)
getGistRequest == [orgId |-> "org", token |-> "undefined"]

\* the body of the request to /cla/getAll (lines 660-668)
getAllRequest(gistVersion) ==
    [orgId |-> "org", gist_version |-> gistVersion, token |-> GITHUB_ORGTOKEN]

\* getGist's .then: the gist built from a response carrying `history`
gistOf(history) ==
    [tag |-> "gist", url |-> "gist", filename |-> "cla.md",
     versions |-> [k \in 1..Len(history) |->
                      [version |-> history[k].version,
                       committed |-> history[k].committed_at,
                       url |-> history[k].url]]]

\* getSignatures' .then: attach the version's commit date and the filename
getSignatures(gist, signatures) ==
    [k \in 1..Len(signatures) |->
        LET s == signatures[k]
            known == {j \in 1..Len(gist.versions) :
                        gist.versions[j].version = s.gist_version}
        IN  [_id |-> s._id, user |-> s.user, created_at |-> s.created_at,
             updated_at |-> s.updated_at, revoked_at |-> s.revoked_at,
             gist_version |-> s.gist_version,
             custom_fields |-> s.custom_fields,
             gist_committed_at |->
                 IF known = {} THEN Undefined
                 ELSE gist.versions[CHOOSE j \in known : TRUE].committed,
             gist_filename |-> gist.filename,
             origin |-> "undefined"]]

\* ------------------------------------------------------------ files
Absent == [tag |-> "absent"]
Corrupt == [tag |-> "corrupt"]
Json(data) == [tag |-> "json", data |-> data]

\* what an earlier run of the service left in the file cache
OldGist == gistOf(HistoryAt(0))
OldSignees ==
    LET m == BuildSignees(0 - 1, <<getSignatures(OldGist, GetAllAt(0, "v1"))>>)
    IN  [entries |-> m.entries, timestamp |-> m.timestamp]

\* writeCacheFile: the JSON text written for a gist / for a signee map
\* (a Map is written as its entries plus its timestamp property)
gistJson(gist) == Json(gist)
signeesJson(map) == Json([entries |-> map.entries, timestamp |-> map.timestamp])

\* readCacheFile's reviver (lines 219-234) on an object of strings: it
\* returns undefined for a falsy value, which removes the property; a
\* removed property reads "undefined"
reviver(object) ==
    [key \in DOMAIN object |-> IF object[key] = "" THEN "undefined" ELSE object[key]]

\* readCacheFile of the signee file: a new Map object
reviveSignees(id, file) ==
    [tag |-> "map", obj |-> id,
     entries |-> [u \in DOMAIN file.data.entries |->
                    [k \in 1..Len(file.data.entries[u]) |->
                        [file.data.entries[u][k] EXCEPT !.custom_fields = reviver(@)]]],
     timestamp |-> file.data.timestamp]

\* ------------------------------------------------------------ local signatures
\* getBasicUserName(request, CLA_SIGN_AUTH) of a request that may upload
SignUser == "admin"

\* signatureFromUpload (lines 274-302); id stands for nanoid(), t for new Date()
signatureFromUpload(id, formData, t) ==
    [_id |-> id, user |-> formData.signerEmail, created_at |-> formData.signedDate,
     updated_at |-> t, revoked_at |-> Undefined,
     gist_version |-> "undefined", gist_committed_at |-> Undefined,
     custom_fields |-> [employer |-> "none"],
     gist_filename |-> "cla.pdf", origin |-> "local|" \o SignUser]

\* the file writeLocalSignature writes (line 306): its name is made of the
\* e-mail and of Date.now() at line 445
LocalFile(email, ms, signature) == [name |-> <<email, ms>>, data |-> signature]

\* a record an earlier run of the service left in the local store
OldLocal ==
    LocalFile("bob", 0,
              signatureFromUpload("l0", [signerName |-> "Bob", signerEmail |-> "bob",
                                         signedDate |-> 2], 1))

\* fs.writeFile(filePath, ...) on the store: a file of that name is replaced
WriteFile(store, file) == {f \in store : f.name # file.name} \cup {file}

\* the arrays that hold every element of the set S once
Orders(S) ==
    {s \in [1..Cardinality(S) -> S] : {s[k] : k \in 1..Cardinality(S)} = S}

\* ------------------------------------------------------------ state
VARIABLES
    cfg,            \* the environment: filecache, filelocal, listAuth, signAuth and
                    \* authFields tell whether CLA_FILECACHE, CLA_FILELOCAL,
                    \* CLA_LIST_AUTH, CLA_SIGN_AUTH and CLA_AUTH_FIELDS are set;
                    \* base is BASE
    globalError,    \* "false" | "null" | "error" | "aggregate"
    globalGist,     \* Null or a gist
    globalSignees,  \* Null or a signee map
    fileGist,       \* gist.json in CLA_FILECACHE
    fileSignees,    \* signees.json in CLA_FILECACHE
    localStore,     \* the files of CLA_FILELOCAL/signatures: a set of [name, data]
    epoch,          \* the state of the upstream data
    nreq,           \* HTTP requests accepted so far
    crashed,        \* the process has died of an unhandled promise rejection
    rl,             \* the activation of globalReload made by request r (0: startup)
    rq,             \* the route handler of request r (0: the module's top level)
    last,           \* the handler that ended last: its route, its reload, its answer
    added           \* the signatures whose upload was answered "CLA added succesfully."

vars == <<cfg, globalError, globalGist, globalSignees, fileGist, fileSignees,
          localStore, epoch, nreq, crashed, rl, rq, last, added>>

Reqs == 0..MaxReq

\* globalError is truthy
InError(err) == err \notin {"false", "null"}

\* an activation of globalReload that is not running
IdleReload ==
    [pc |-> "idle", ignoreErrors |-> FALSE, disableCache |-> FALSE,
     gist |-> Null, signees |-> Null, gotCached |-> FALSE, ex |-> "null",
     perVersionSignatures |-> <<>>,
     localPromise |-> "none", signatures |-> <<>>,
     addedBefore |-> {},      \* the uploads answered "added" before it was called
     loaded |-> {}]           \* which of gist and signees readCacheFile returned

\* a request slot that is not in use; authorization is the credential of
\* the request's `Authorization: Basic ...` header ("none": no header) and
\* format what response.format chooses for its Accept header
IdleRequest ==
    [kind |-> "none", pc |-> "new", reload |-> FALSE, username |-> "",
     authorization |-> "admin", format |-> "text",
     formData |-> Null, signature |-> Null, uploadStatus |-> "none"]

\* a response body: its text and, for json, the signatures it carries
Text(text) == [text |-> text, signatures |-> <<>>]

\* no handler has ended yet
NoEvent ==
    [req |-> 0, kind |-> "none", status |-> 0, uploadStatus |-> "none",
     result |-> "none", ex |-> "null", gotCached |-> FALSE, local |-> "none",
     reload |-> FALSE, username |-> "", authorization |-> "admin", format |-> "text",
     body |-> Text("")]

\* ------------------------------------------------------------ authorization
\* the values of CLA_LIST_AUTH and CLA_SIGN_AUTH when they are set (lines
\* 84-85), each credential named by the user name it decodes to
ListCredentials == {"reader", "admin"}
SignCredentials == {"admin"}

\* the private field names of CLA_AUTH_FIELDS when it is set (line 86)
AuthFields == {"employer"}

\* authList of lines 710-714: is the list defined, and what it holds
AuthListSet(which) == IF which = "list" THEN cfg.listAuth ELSE cfg.signAuth
AuthList(which) == IF which = "list" THEN ListCredentials ELSE SignCredentials

\* Gets the authorized client's username if it is one of the predefined accounts
getBasicUserName(request, which) ==
    IF ~AuthListSet(which) THEN "null"
    ELSE IF request.authorization = "none" THEN "null"
    ELSE IF request.authorization \notin AuthList(which) THEN "null"
    ELSE request.authorization

\* Checks whether the client is authorized using one of the predefined acccounts
needsAuthorization(request, which) == getBasicUserName(request, which) = "null"

\* line 435
canUpload(request) == cfg.filelocal /\ ~needsAuthorization(request, "sign")

\* ------------------------------------------------------------ globalReload
\* The operators below work on a machine record m: the globals that
\* globalReload assigns (err, ggist, gsignees) and its activation l.  Each
\* one is the code from some line up to the next await.

\* lines 181-182
Publish(m) ==
    [m EXCEPT !.ggist = m.l.gist, !.gsignees = m.l.signees, !.l.pc = "returned"]

\* lines 172-174, the promise being fulfilled: addLocalSignature on a null
\* map throws, which line 176 catches
MergeLocal(m) ==
    IF m.l.localPromise = "fulfilled" /\ m.l.signees # Null
    THEN [m EXCEPT !.l.signees = AddAll(@, m.l.signatures)]
    ELSE m

\* lines 169-182
AfterSave(m) ==
    IF m.l.localPromise = "none" THEN Publish(m)
    ELSE IF m.l.localPromise \in {"fulfilled", "rejected"} THEN Publish(MergeLocal(m))
    ELSE [m EXCEPT !.l.pc = "awaitLocal"]

\* line 157 without the test of gotCached
AfterTrySavesCached(m) ==
    IF cfg.filecache /\ m.l.gist # Null /\ m.l.signees # Null
    THEN [m EXCEPT !.l.pc = "writeGist"]
    ELSE AfterSave(m)

\* line 157
AfterTry(m) ==
    IF ~m.l.gotCached /\ cfg.filecache /\ m.l.gist # Null /\ m.l.signees # Null
    THEN [m EXCEPT !.l.pc = "writeGist"]
    ELSE AfterSave(m)

\* lines 152-154 without the throw of line 154
CatchEndNoThrow(m) == AfterTry([m EXCEPT !.err = m.l.ex])

\* lines 152-154 without the assignment of line 152
CatchEndKeepsGlobalError(m) ==
    IF m.l.ex # "null" /\ ~m.l.ignoreErrors
    THEN [m EXCEPT !.l.pc = "thrown"]
    ELSE AfterTry(m)

\* lines 152-154 with a throw that does not look at ignoreErrors
CatchEndAlwaysThrows(m) ==
    LET m1 == [m EXCEPT !.err = m.l.ex]
    IN  IF m.l.ex # "null"
        THEN [m1 EXCEPT !.l.pc = "thrown"]
        ELSE AfterTry(m1)

\* lines 152-154
CatchEnd(m) ==
    LET m1 == [m EXCEPT !.err = m.l.ex]
    IN  IF m.l.ex # "null" /\ ~m.l.ignoreErrors
        THEN [m1 EXCEPT !.l.pc = "thrown"]
        ELSE AfterTry(m1)

\* lines 133-141 with a catch that does not look at disableCache
CatchIgnoringDisableCache(m) ==
    IF cfg.filecache
    THEN [m EXCEPT !.l.pc = "readGist"]
    ELSE CatchEnd(m)

\* lines 133-141: an upstream call has thrown, ex is what it threw
Catch(m) ==
    IF cfg.filecache /\ ~m.l.disableCache
    THEN [m EXCEPT !.l.pc = "readGist"]
    ELSE CatchEnd(m)

\* getGist or getSignees rejects with `error`: "error" for a failed call,
\* "empty" for "No gist history available." (line 598, wrapped at line 603)
Throw(m, error) == Catch([m EXCEPT !.l.ex = error])

\* lines 146-150: a cache file could not be read
CatchFs(m) == CatchEnd([m EXCEPT !.l.ex = "aggregate"])

\* lines 143-144 without `ex = null`
GotCachedKeepsEx(m) == CatchEnd([m EXCEPT !.l.gotCached = TRUE])

\* lines 143-144
GotCached(m) == CatchEnd([m EXCEPT !.l.gotCached = TRUE, !.l.ex = "null"])

\* line 131
TryEnd(m) == AfterTry([m EXCEPT !.err = "null"])

\* lines 120-129: the call of globalReload up to its first await
globalReload(ignoreErrors, disableCache) ==
    [IdleReload EXCEPT
        !.pc = "getGist",
        !.ignoreErrors = ignoreErrors,
        !.disableCache = disableCache,
        !.localPromise = IF cfg.filelocal THEN "pending" ELSE "none"]

Machine(r) ==
    [err |-> globalError, ggist |-> globalGist, gsignees |-> globalSignees, l |-> rl[r]]

\* an activation that has ended
Ended == [IdleReload EXCEPT !.pc = "ended"]

Running(r) == rl[r].pc \notin {"idle", "ended"}

\* ------------------------------------------------------------ route handlers
\* lines 384-420, text/html: the status of GET /list/username
listUserStatus(signees, username) ==
    IF signees = Null THEN 500                      \* TypeError, Express answers 500
    ELSE IF ~Has(signees.entries, username) THEN 404
    ELSE IF Len(signees.entries[username]) < 1 THEN 404
    ELSE IF signees.entries[username][1].revoked_at # Undefined THEN 410
    ELSE 200

\* lines 498-539: the status of /list
listStatus(signees) == IF signees = Null THEN 500 ELSE 200

\* the answer of handler q, which reads the snapshot `signees`: json (and
\* xml) is sent with the status 200 that line 410 has set
Answer(q, signees) ==
    IF q.kind = "reload" THEN 200
    ELSE IF q.kind = "user"
    THEN IF q.format = "json" /\ listUserStatus(signees, q.username) = 410 THEN 200
         ELSE listUserStatus(signees, q.username)
    ELSE listStatus(signees)

\* lines 399-405 without the delete
censoredNothing(signature) == signature

\* lines 399-405: a copy of the signature without the private fields (a
\* deleted property reads "undefined")
censored(signature) ==
    [signature EXCEPT
        !.custom_fields = [key \in DOMAIN @ |->
                              IF key \in AuthFields THEN "undefined" ELSE @[key]]]

\* lines 393-408: the signatures that GET /list/username answers with
signaturesFor(q, signees) ==
    LET signatures == signees.entries[q.username]
    IN  IF cfg.authFields /\ needsAuthorization(q, "list")
        THEN [i \in 1..Len(signatures) |-> censored(signatures[i])]
        ELSE signatures

\* the body sent with status code `status` by handler q, which reads the
\* snapshot `signees` (500 is the page of Express's error handler)
Body(q, signees, status) ==
    IF status = 500 THEN Text("Internal Server Error")
    ELSE IF q.kind = "reload" THEN Text("OK")
    ELSE IF q.kind = "user"
    THEN IF status = 404 THEN Text("Not found")
         ELSE IF q.format = "json"
         THEN [text |-> "", signatures |-> signaturesFor(q, signees)]
         ELSE IF status = 410 THEN Text("Revoked")
         ELSE Text("OK")
    ELSE Text("list")

\* the handler q of request r ends with status code `status` and the
\* response body `body`; l is its activation of globalReload
Event(r, q, l, status, body) ==
    [req |-> r, kind |-> q.kind, status |-> status, uploadStatus |-> q.uploadStatus,
     result |-> IF l.pc \in {"returned", "thrown"} THEN l.pc ELSE "none",
     ex |-> l.ex, gotCached |-> l.gotCached, local |-> l.localPromise,
     reload |-> q.reload, username |-> q.username,
     authorization |-> q.authorization, format |-> q.format, body |-> body]

Done == [IdleRequest EXCEPT !.pc = "done"]

\* the process dies: what it leaves behind is its files
Dead ==
    /\ crashed' = TRUE
    /\ globalError' = "false"
    /\ globalGist' = Null
    /\ globalSignees' = Null
    /\ nreq' = 0
    /\ rl' = [r \in Reqs |-> IdleReload]
    /\ rq' = [r \in Reqs |-> IdleRequest]
    /\ last' = NoEvent
    /\ added' = {}

\* the effect of one uninterrupted run of activation r that ends in m: when
\* globalReload returns or throws, the code after `await globalReload(...)`
\* in the handler runs too (a throw makes Express answer 500)
Go(r, m) ==
    /\ globalError' = m.err
    /\ globalGist' = m.ggist
    /\ globalSignees' = m.gsignees
    /\ UNCHANGED <<nreq, crashed, added>>
    /\ IF m.l.pc \in {"returned", "thrown"}
       THEN /\ rl' = [rl EXCEPT ![r] = Ended]
            /\ rq' = [rq EXCEPT ![r] = Done]
            /\ last' = LET status == IF rq[r].kind = "startup" THEN 0
                                      ELSE IF m.l.pc = "thrown" THEN 500
                                      ELSE Answer(rq[r], m.gsignees)
                           body == IF rq[r].kind = "startup" THEN Text("")
                                   ELSE IF m.l.pc = "thrown" /\ rq[r].kind = "reload"
                                   THEN Text("ERROR")
                                   ELSE Body(rq[r], m.gsignees, status)
                       IN  Event(r, rq[r], m.l, status, body)
       ELSE /\ rl' = [rl EXCEPT ![r] = m.l]
            /\ UNCHANGED <<rq, last>>

\* A throw at line 154 leaves localPromise without a handler for good: it is
\* fulfilled later without effect, or rejected (fs.readdir fails), and that
\* unhandled rejection ends the process.
Apply(r, m) ==
    \/ Go(r, m)
    \/ /\ m.l.pc = "thrown"
       /\ m.l.localPromise = "pending"
       /\ Dead

\* ------------------------------------------------------------ initial state
\* lines 97-114: the module's top level up to the await of the startup reload
InitWith(configurations) ==
    /\ cfg \in configurations
    /\ globalError = "false"
    /\ globalGist = Null
    /\ globalSignees = Null
    /\ \E files \in IF cfg.filecache
                     THEN {<<Absent, Absent>>, <<Json(OldGist), Json(OldSignees)>>,
                           <<Json(OldGist), Corrupt>>}
                     ELSE {<<Absent, Absent>>} :
         fileGist = files[1] /\ fileSignees = files[2]
    /\ localStore \in IF cfg.filelocal THEN {{}, {OldLocal}} ELSE {{}}
    /\ epoch = 0
    /\ nreq = 0
    /\ crashed = FALSE
    /\ rl = [r \in Reqs |-> IF r = 0 THEN globalReload(TRUE, FALSE) ELSE IdleReload]
    /\ rq = [r \in Reqs |-> IF r = 0 THEN [IdleRequest EXCEPT !.kind = "startup",
                                                              !.pc = "reloading"]
                            ELSE IdleRequest]
    /\ last = NoEvent
    /\ added = {}

\* the service at BASE "/" with both credential lists set and no private
\* fields, with or without the file cache and the local store
Init ==
    InitWith([filecache : BOOLEAN, filelocal : BOOLEAN, base : {"/"},
              listAuth : {TRUE}, signAuth : {TRUE}, authFields : {FALSE}])

\* ------------------------------------------------------------ upstream calls
\* getGist without the check of line 590: an empty history is a gist, and
\* getSignees, whose loop has nothing to do, returns an empty Map
GetGistDoneAnyHistory(r) ==
    /\ ~crashed
    /\ rl[r].pc = "getGist"
    /\ \E outcome \in {"failed", "empty", "ok"} :
         LET m == Machine(r)
             gist == gistOf(HistoryAt(epoch))
         IN  Apply(r, IF outcome = "ok"
                      THEN [m EXCEPT !.l.gist = gist, !.l.pc = "getSignatures"]
                      ELSE IF outcome = "empty"
                      THEN TryEnd([m EXCEPT !.l.gist = gistOf(<<>>),
                                            !.l.signees = BuildSignees(r, <<>>)])
                      ELSE Throw(m, "error"))
    /\ UNCHANGED <<cfg, fileGist, fileSignees, localStore, epoch>>

\* getGist settles (lines 575-605, then 129-130 or the catch)
GetGistDone(r) ==
    /\ ~crashed
    /\ rl[r].pc = "getGist"
    /\ \E outcome \in {"failed", "empty", "ok"} :
         LET m == Machine(r)
             gist == gistOf(HistoryAt(epoch))
         IN  Apply(r, IF outcome = "ok"
                      THEN [m EXCEPT !.l.gist = gist, !.l.pc = "getSignatures"]
                      ELSE Throw(m, IF outcome = "empty" THEN "empty" ELSE "error"))
    /\ UNCHANGED <<cfg, fileGist, fileSignees, localStore, epoch>>

\* getSignees with a loop that runs from the last version to the first
GetSignaturesDoneReversed(r) ==
    /\ ~crashed
    /\ rl[r].pc = "getSignatures"
    /\ \E ok \in BOOLEAN :
         LET m == Machine(r)
             l == rl[r]
             n == Len(l.gist.versions)
             i == Len(l.perVersionSignatures) + 1
             got == Append(l.perVersionSignatures,
                           getSignatures(l.gist, GetAllAt(epoch, l.gist.versions[n + 1 - i].version)))
         IN  Apply(r, IF ~ok THEN Throw(m, "error")
                      ELSE IF i < n
                      THEN [m EXCEPT !.l.perVersionSignatures = got]
                      ELSE TryEnd([m EXCEPT !.l.perVersionSignatures = got,
                                            !.l.signees = BuildSignees(r, got)]))
    /\ UNCHANGED <<cfg, fileGist, fileSignees, localStore, epoch>>

\* getSignatures for the next version settles (lines 618-640 and 669-691)
GetSignaturesDone(r) ==
    /\ ~crashed
    /\ rl[r].pc = "getSignatures"
    /\ \E ok \in BOOLEAN :
         LET m == Machine(r)
             l == rl[r]
             i == Len(l.perVersionSignatures) + 1
             got == Append(l.perVersionSignatures,
                           getSignatures(l.gist, GetAllAt(epoch, l.gist.versions[i].version)))
         IN  Apply(r, IF ~ok THEN Throw(m, "error")
                      ELSE IF i < Len(l.gist.versions)
                      THEN [m EXCEPT !.l.perVersionSignatures = got]
                      ELSE TryEnd([m EXCEPT !.l.perVersionSignatures = got,
                                            !.l.signees = BuildSignees(r, got)]))
    /\ UNCHANGED <<cfg, fileGist, fileSignees, localStore, epoch>>

\* ------------------------------------------------------------ file cache
\* readCacheFile(CLA_FILE_GIST) settles (line 141)
ReadGistDone(r) ==
    /\ ~crashed
    /\ rl[r].pc = "readGist"
    /\ LET m == Machine(r)
       IN  Apply(r, IF fileGist.tag = "json"
                    THEN [m EXCEPT !.l.gist = fileGist.data, !.l.loaded = {"gist"},
                                    !.l.pc = "readSignees"]
                    ELSE CatchFs(m))
    /\ UNCHANGED <<cfg, fileGist, fileSignees, localStore, epoch>>

\* readCacheFile(CLA_FILE_SIGNEES) settles (lines 142-154)
ReadSigneesDone(r) ==
    /\ ~crashed
    /\ rl[r].pc = "readSignees"
    /\ LET m == Machine(r)
       IN  Apply(r, IF fileSignees.tag = "json"
                    THEN GotCached([m EXCEPT !.l.signees = reviveSignees(r, fileSignees),
                                              !.l.loaded = @ \cup {"signees"}])
                    ELSE CatchFs(m))
    /\ UNCHANGED <<cfg, fileGist, fileSignees, localStore, epoch>>

\* writeCacheFile(CLA_FILE_GIST, gist) settles (lines 161-167); a failed
\* write leaves the old file or a damaged one
WriteGistDone(r) ==
    /\ ~crashed
    /\ rl[r].pc = "writeGist"
    /\ LET m == Machine(r)
       IN  \/ /\ fileGist' = gistJson(rl[r].gist)
              /\ Apply(r, [m EXCEPT !.l.pc = "writeSignees"])
           \/ /\ fileGist' \in {fileGist, Corrupt}
              /\ Apply(r, AfterSave(m))
    /\ UNCHANGED <<cfg, fileSignees, localStore, epoch>>

\* a save that follows the merge of the local signatures (lines 169-179
\* placed before line 157)
WriteSigneesDoneAfterMerge(r) ==
    /\ ~crashed
    /\ rl[r].pc = "writeSignees"
    /\ LET m == Machine(r)
       IN  /\ \/ fileSignees' = signeesJson(MergeLocal(m).l.signees)
              \/ fileSignees' \in {fileSignees, Corrupt}
           /\ Apply(r, AfterSave(m))
    /\ UNCHANGED <<cfg, fileGist, localStore, epoch>>

\* writeCacheFile(CLA_FILE_SIGNEES, signees) settles (lines 162-167)
WriteSigneesDone(r) ==
    /\ ~crashed
    /\ rl[r].pc = "writeSignees"
    /\ LET m == Machine(r)
       IN  /\ \/ fileSignees' = signeesJson(rl[r].signees)
              \/ fileSignees' \in {fileSignees, Corrupt}
           /\ Apply(r, AfterSave(m))
    /\ UNCHANGED <<cfg, fileGist, localStore, epoch>>

\* ------------------------------------------------------------ getLocalSignatures
\* the promise localPromise of activation r settles while globalReload waits
\* for it at line 172, or before
Settle(r, l) ==
    IF l.pc = "awaitLocal"
    THEN Apply(r, Publish(MergeLocal([Machine(r) EXCEPT !.l = l])))
    ELSE /\ rl' = [rl EXCEPT ![r] = l]
         /\ UNCHANGED <<globalError, globalGist, globalSignees, nreq, crashed, rq, last, added>>

\* getLocalSignatures that returns without waiting for every read: it is
\* fulfilled with the records read so far
LocalDoneUnsettled(r) ==
    /\ ~crashed
    /\ rl[r].localPromise = "pending"
    /\ \/ /\ \E files \in SUBSET {f \in localStore : f.data # Corrupt} :
               \E order \in Orders(files) :
                   Settle(r, [rl[r] EXCEPT
                                 !.localPromise = "fulfilled",
                                 !.signatures = [k \in 1..Len(order) |-> order[k].data]])
       \/ /\ rl[r].pc = "awaitLocal"
          /\ Settle(r, [rl[r] EXCEPT !.localPromise = "rejected"])
       \/ /\ rl[r].pc # "awaitLocal"
          /\ Dead
    /\ UNCHANGED <<cfg, fileGist, fileSignees, localStore, epoch>>

\* getLocalSignatures settles (lines 241-272): the directory is listed and
\* every file of it read.  It is fulfilled with the records that could be
\* read and parsed, in the order in which the reads completed; it is
\* rejected when fs.readdir fails, and a rejection that finds globalReload
\* not yet at line 172 is an unhandled rejection, which ends the process.
LocalDone(r) ==
    /\ ~crashed
    /\ rl[r].localPromise = "pending"
    /\ \/ /\ \E order \in Orders({f \in localStore : f.data # Corrupt}) :
               Settle(r, [rl[r] EXCEPT
                             !.localPromise = "fulfilled",
                             !.signatures = [k \in 1..Len(order) |-> order[k].data]])
       \/ /\ rl[r].pc = "awaitLocal"
          /\ Settle(r, [rl[r] EXCEPT !.localPromise = "rejected"])
       \/ /\ rl[r].pc # "awaitLocal"
          /\ Dead
    /\ UNCHANGED <<cfg, fileGist, fileSignees, localStore, epoch>>

\* ------------------------------------------------------------ requests
\* the names asked for with GET /list/username
UserNames == {"bob"}

\* values of the upload form's `name`, `email` and `signed` fields
Names == {"Bob"}
Emails == {"bob"}
SignedDates == {2}

\* the forms a POST carries: a complete one, and one without each field
Forms ==
    LET form(name, email, signed) ==
            [signerName |-> name, signerEmail |-> email, signedDate |-> signed,
             fileName |-> Undefined]
    IN  {form(name, email, signed) : name \in Names, email \in Emails, signed \in SignedDates}
        \cup {form("", email, signed) : email \in Emails, signed \in SignedDates}
        \cup {form(name, "", signed) : name \in Names, signed \in SignedDates}
        \cup {form(name, email, Undefined) : name \in Names, email \in Emails}

\* lines 456-461 without the three checks
uploadStatusOfAnything(formData) == "none"

\* lines 456-461: "required" stands for the three "... is required." errors
uploadStatusOf(formData) ==
    IF formData.signerName = "" THEN "required"
    ELSE IF formData.signerEmail = "" THEN "required"
    ELSE IF formData.signedDate = Undefined THEN "required"
    ELSE "none"

\* readings of the wall clock (Date.now(), new Date()) during an upload
Clock == {1, 2}

Listening == rq[0].pc = "done"          \* line 558 follows the startup reload

\* a request may arrive
Accept(r) == ~crashed /\ Listening /\ nreq < MaxReq /\ r = nreq + 1

\* lines 482-489: the status of the answer to a client that may not list
unauthorizedStatus(uploadStatus) ==
    IF uploadStatus = "none" THEN 401
    ELSE IF uploadStatus = "ok" THEN 200
    ELSE 400

\* the handler q calls globalReload(false, true) with a fallback allowed
ReloadWithCacheOrAnswer(r, q, signees, addedNow) ==
    IF q.kind \in {"list", "post"} /\ needsAuthorization(q, "list")
    THEN /\ rq' = [rq EXCEPT ![r] = Done]
         /\ rl' = rl
         /\ last' = Event(r, q, rl[r], unauthorizedStatus(q.uploadStatus),
                          Text(IF q.uploadStatus = "none" THEN "Authorization required"
                               ELSE q.uploadStatus))
    ELSE IF q.reload
    THEN /\ rq' = [rq EXCEPT ![r] = [q EXCEPT !.pc = "reloading"]]
         /\ rl' = [rl EXCEPT ![r] = [globalReload(FALSE, FALSE) EXCEPT !.addedBefore = addedNow]]
         /\ last' = last
    ELSE /\ rq' = [rq EXCEPT ![r] = Done]
         /\ rl' = rl
         /\ last' = Event(r, q, rl[r], Answer(q, signees),
                          Body(q, signees, Answer(q, signees)))

\* the handler q answers a client that may not list (lines 482-489), calls
\* globalReload(false, true) (lines 381-382, 492-496), or goes on to answer
ReloadOrAnswer(r, q, signees, addedNow) ==
    IF q.kind \in {"list", "post"} /\ needsAuthorization(q, "list")
    THEN /\ rq' = [rq EXCEPT ![r] = Done]
         /\ rl' = rl
         /\ last' = Event(r, q, rl[r], unauthorizedStatus(q.uploadStatus),
                          Text(IF q.uploadStatus = "none" THEN "Authorization required"
                               ELSE q.uploadStatus))
    ELSE IF q.reload
    THEN /\ rq' = [rq EXCEPT ![r] = [q EXCEPT !.pc = "reloading"]]
         /\ rl' = [rl EXCEPT ![r] = [globalReload(FALSE, TRUE) EXCEPT !.addedBefore = addedNow]]
         /\ last' = last
    ELSE /\ rq' = [rq EXCEPT ![r] = Done]
         /\ rl' = rl
         /\ last' = Event(r, q, rl[r], Answer(q, signees),
                          Body(q, signees, Answer(q, signees)))

\* the guard of lines 542-548, which app.use mounts on the path /list
\* whatever BASE is, then the handler (mounted on BASE + /list) up to its
\* first await
Guarded(r, q) ==
    IF cfg.base = "/" /\ InError(globalError)
    THEN /\ rq' = [rq EXCEPT ![r] = Done]
         /\ rl' = rl
         /\ last' = Event(r, q, rl[r], 503, Text(""))
    ELSE IF q.kind = "post"
    THEN /\ rq' = [rq EXCEPT ![r] = [q EXCEPT !.pc = "upload"]]
         /\ UNCHANGED <<rl, last>>
    ELSE ReloadOrAnswer(r, q, globalSignees, added)

\* GET /reload (lines 365-377)
GetReload(r) ==
    /\ Accept(r)
    /\ nreq' = r
    /\ rq' = [rq EXCEPT ![r] = [IdleRequest EXCEPT !.kind = "reload", !.pc = "reloading"]]
    /\ rl' = [rl EXCEPT ![r] = [globalReload(FALSE, TRUE) EXCEPT !.addedBefore = added]]
    /\ UNCHANGED <<cfg, globalError, globalGist, globalSignees, fileGist, fileSignees,
                   localStore, epoch, crashed, last, added>>

\* GET /list/username (lines 379-431)
GetListUser(r) ==
    /\ Accept(r)
    /\ nreq' = r
    /\ \E u \in UserNames, reload \in BOOLEAN :
         Guarded(r, [IdleRequest EXCEPT !.kind = "user", !.username = u, !.reload = reload])
    /\ UNCHANGED <<cfg, globalError, globalGist, globalSignees, fileGist, fileSignees,
                   localStore, epoch, crashed, added>>

\* GET /list (lines 433-540)
GetList(r) ==
    /\ Accept(r)
    /\ nreq' = r
    /\ \E reload \in BOOLEAN :
         Guarded(r, [IdleRequest EXCEPT !.kind = "list", !.reload = reload])
    /\ UNCHANGED <<cfg, globalError, globalGist, globalSignees, fileGist, fileSignees,
                   localStore, epoch, crashed, added>>

\* POST /list with a file and a form: the request arrives and multer
\* starts storing the file
PostList(r) ==
    /\ Accept(r)
    /\ nreq' = r
    /\ \E formData \in Forms :
         Guarded(r, [IdleRequest EXCEPT !.kind = "post", !.formData = formData])
    /\ UNCHANGED <<cfg, globalError, globalGist, globalSignees, fileGist, fileSignees,
                   localStore, epoch, crashed, added>>

\* POST /list?reload=true with a file and a complete form
PostListReload(r) ==
    /\ Accept(r)
    /\ nreq' = r
    /\ \E formData \in {f \in Forms : uploadStatusOf(f) = "none"} :
         Guarded(r, [IdleRequest EXCEPT
                        !.kind = "post", !.reload = TRUE, !.formData = formData])
    /\ UNCHANGED <<cfg, globalError, globalGist, globalSignees, fileGist, fileSignees,
                   localStore, epoch, crashed, added>>

\* ------------------------------------------------------------ any client
\* credentials a request may carry: none, one of each list, an unlisted one
Credentials == {"none", "reader", "admin", "guest"}

\* names asked for: a user name, a value of the custom field `employer`,
\* and a name nobody has
LookupNames == {"bob", "acme", "nobody"}

\* GET /list/username from any client, as text or as json
HttpGetListUser(r) ==
    /\ Accept(r)
    /\ nreq' = r
    /\ \E u \in LookupNames, reload \in BOOLEAN, authorization \in {"none", "reader"},
          format \in {"text", "json"} :
         Guarded(r, [IdleRequest EXCEPT !.kind = "user", !.username = u, !.reload = reload,
                                        !.authorization = authorization, !.format = format])
    /\ UNCHANGED <<cfg, globalError, globalGist, globalSignees, fileGist, fileSignees,
                   localStore, epoch, crashed, added>>

\* GET /list from any client
HttpGetList(r) ==
    /\ Accept(r)
    /\ nreq' = r
    /\ \E reload \in BOOLEAN, authorization \in Credentials :
         Guarded(r, [IdleRequest EXCEPT !.kind = "list", !.reload = reload,
                                        !.authorization = authorization])
    /\ UNCHANGED <<cfg, globalError, globalGist, globalSignees, fileGist, fileSignees,
                   localStore, epoch, crashed, added>>

\* POST /list with a file and a complete form from any client
HttpPostList(r) ==
    /\ Accept(r)
    /\ nreq' = r
    /\ \E formData \in {f \in Forms : uploadStatusOf(f) = "none"},
          authorization \in Credentials :
         Guarded(r, [IdleRequest EXCEPT !.kind = "post", !.formData = formData,
                                        !.authorization = authorization])
    /\ UNCHANGED <<cfg, globalError, globalGist, globalSignees, fileGist, fileSignees,
                   localStore, epoch, crashed, added>>

\* globalError.message with the request that failed appended to it
messageWithRequest(error) ==
    IF error \in {"error", "aggregate"} THEN error \o ": " \o GITHUB_ORGTOKEN ELSE error

\* globalError.message (line 337): the text given to new Error at lines
\* 598, 603, 690 or to new AggregateError at line 149
message(error) == error

\* GET /status (lines 334-340)
GetStatus(r) ==
    /\ Accept(r)
    /\ nreq' = r
    /\ rq' = [rq EXCEPT ![r] = Done]
    /\ last' = LET q == [IdleRequest EXCEPT !.kind = "status", !.authorization = "none"]
               IN  IF InError(globalError)
                   THEN Event(r, q, rl[r], 503, Text(message(globalError)))
                   ELSE Event(r, q, rl[r], 200, Text("OK"))
    /\ UNCHANGED <<cfg, globalError, globalGist, globalSignees, fileGist, fileSignees,
                   localStore, epoch, crashed, rl, added>>

\* what is kept of the handler's locals once the upload part is over
Uploaded(q, uploadStatus) ==
    [q EXCEPT !.formData = Null, !.signature = Null, !.uploadStatus = uploadStatus]

LocalId(r) == "l" \o ToString(r)

\* multer has stored the file and fs.rename has settled (lines 435-468, up
\* to the await of writeLocalSignature); ms is Date.now() at line 445 and t
\* new Date() at line 277
UploadDone(r) ==
    /\ ~crashed
    /\ rq[r].pc = "upload"
    /\ IF canUpload(rq[r]) /\ uploadStatusOf(rq[r].formData) # "none"
       THEN ReloadOrAnswer(r, Uploaded(rq[r], uploadStatusOf(rq[r].formData)),
                           globalSignees, added)
       ELSE IF canUpload(rq[r])
       THEN \/ \E ms \in Clock, t \in Clock :
                 /\ ms = t
                 /\ rq' = [rq EXCEPT
                             ![r].pc = "writeLocal",
                             ![r].formData = [@ EXCEPT !.fileName = ms],
                             ![r].signature = signatureFromUpload(LocalId(r), rq[r].formData, t)]
                 /\ UNCHANGED <<rl, last>>
            \/ ReloadOrAnswer(r, Uploaded(rq[r], "error"), globalSignees, added)
       ELSE ReloadOrAnswer(r, Uploaded(rq[r], "none"), globalSignees, added)
    /\ UNCHANGED <<cfg, globalError, globalGist, globalSignees, fileGist, fileSignees,
                   localStore, epoch, nreq, crashed, added>>

\* the upload branch with an added signature that clears globalError
WriteLocalDoneHealing(r) ==
    /\ ~crashed
    /\ rq[r].pc = "writeLocal"
    /\ LET q == rq[r]
           file == LocalFile(q.formData.signerEmail, q.formData.fileName, q.signature)
       IN  \/ /\ localStore' = WriteFile(localStore, file)
              /\ IF globalSignees = Null
                 THEN /\ globalSignees' = globalSignees
                      /\ globalError' = globalError
                      /\ added' = added
                      /\ ReloadOrAnswer(r, Uploaded(q, "error"), globalSignees, added)
                 ELSE /\ globalSignees' = addLocalSignature(globalSignees, q.signature, TRUE)
                      /\ added' = added \cup {q.signature}
                      /\ globalError' = "null"
                      /\ ReloadOrAnswer(r, Uploaded(q, "ok"), globalSignees',
                                        added \cup {q.signature})
           \/ /\ localStore' \in {localStore, WriteFile(localStore, [file EXCEPT !.data = Corrupt])}
              /\ UNCHANGED <<globalError, globalSignees, added>>
              /\ ReloadOrAnswer(r, Uploaded(q, "error"), globalSignees, added)
    /\ UNCHANGED <<cfg, globalGist, fileGist, fileSignees, epoch, nreq, crashed>>

\* writeLocalSignature settles (lines 468-477), then the rest of the handler
WriteLocalDone(r) ==
    /\ ~crashed
    /\ rq[r].pc = "writeLocal"
    /\ LET q == rq[r]
           file == LocalFile(q.formData.signerEmail, q.formData.fileName, q.signature)
       IN  \/ /\ localStore' = WriteFile(localStore, file)
              /\ IF globalSignees = Null
                 THEN /\ globalSignees' = globalSignees      \* TypeError, caught at 474
                      /\ added' = added
                      /\ ReloadOrAnswer(r, Uploaded(q, "error"), globalSignees, added)
                 ELSE /\ globalSignees' = addLocalSignature(globalSignees, q.signature, TRUE)
                      /\ added' = added \cup {q.signature}
                      /\ ReloadOrAnswer(r, Uploaded(q, "ok"), globalSignees',
                                        added \cup {q.signature})
           \/ /\ localStore' \in {localStore, WriteFile(localStore, [file EXCEPT !.data = Corrupt])}
              /\ UNCHANGED <<globalSignees, added>>
              /\ ReloadOrAnswer(r, Uploaded(q, "error"), globalSignees, added)
    /\ UNCHANGED <<cfg, globalError, globalGist, fileGist, fileSignees, epoch, nreq, crashed>>

\* ------------------------------------------------------------ environment
\* the upstream data changes (at a time when somebody will see it)
UpstreamChange ==
    /\ ~crashed
    /\ epoch < MaxEpoch
    /\ \E r \in Reqs : rl[r].pc \in {"getGist", "getSignatures"}
    /\ epoch' = epoch + 1
    /\ UNCHANGED <<cfg, globalError, globalGist, globalSignees, fileGist, fileSignees,
                   localStore, nreq, crashed, rl, rq, last, added>>

\* ------------------------------------------------------------ specification
Next ==
    \/ \E r \in Reqs : GetGistDone(r)
    \/ \E r \in Reqs : GetSignaturesDone(r)
    \/ \E r \in Reqs : ReadGistDone(r)
    \/ \E r \in Reqs : ReadSigneesDone(r)
    \/ \E r \in Reqs : WriteGistDone(r)
    \/ \E r \in Reqs : WriteSigneesDone(r)
    \/ \E r \in Reqs : LocalDone(r)
    \/ \E r \in Reqs : GetReload(r)
    \/ \E r \in Reqs : GetListUser(r)
    \/ \E r \in Reqs : GetList(r)
    \/ \E r \in Reqs : PostList(r)
    \/ \E r \in Reqs : UploadDone(r)
    \/ \E r \in Reqs : WriteLocalDone(r)
    \/ UpstreamChange

Spec == Init /\ [][Next]_vars

\* the service with CLA_FILELOCAL set and without CLA_FILECACHE, every
\* request of which is an upload that asks for a reload
InitUpload == Init /\ ~cfg.filecache /\ cfg.filelocal

NextUpload ==
    \/ \E r \in Reqs : GetGistDone(r)
    \/ \E r \in Reqs : GetSignaturesDone(r)
    \/ \E r \in Reqs : LocalDone(r)
    \/ \E r \in Reqs : PostListReload(r)
    \/ \E r \in Reqs : UploadDone(r)
    \/ \E r \in Reqs : WriteLocalDone(r)
    \/ UpstreamChange

SpecUpload == InitUpload /\ [][NextUpload]_vars

\* the service as any client sees it, under four environments: BASE set to
\* /cla; no credential list set, private fields and a local store; both
\* credential lists set with private fields and a local store; both lists
\* set with a file cache
HttpConfigurations ==
    {[filecache |-> FALSE, filelocal |-> FALSE, base |-> "/cla",
      listAuth |-> TRUE, signAuth |-> TRUE, authFields |-> FALSE],
     [filecache |-> FALSE, filelocal |-> TRUE, base |-> "/",
      listAuth |-> FALSE, signAuth |-> FALSE, authFields |-> TRUE],
     [filecache |-> FALSE, filelocal |-> TRUE, base |-> "/",
      listAuth |-> TRUE, signAuth |-> TRUE, authFields |-> TRUE],
     [filecache |-> TRUE, filelocal |-> FALSE, base |-> "/",
      listAuth |-> TRUE, signAuth |-> TRUE, authFields |-> FALSE]}

InitHttp == InitWith(HttpConfigurations)

NextHttp ==
    \/ \E r \in Reqs : GetGistDone(r)
    \/ \E r \in Reqs : GetSignaturesDone(r)
    \/ \E r \in Reqs : ReadGistDone(r)
    \/ \E r \in Reqs : ReadSigneesDone(r)
    \/ \E r \in Reqs : WriteGistDone(r)
    \/ \E r \in Reqs : WriteSigneesDone(r)
    \/ \E r \in Reqs : LocalDone(r)
    \/ \E r \in Reqs : GetReload(r)
    \/ \E r \in Reqs : GetStatus(r)
    \/ \E r \in Reqs : HttpGetListUser(r)
    \/ \E r \in Reqs : HttpGetList(r)
    \/ \E r \in Reqs : HttpPostList(r)
    \/ \E r \in Reqs : UploadDone(r)
    \/ \E r \in Reqs : WriteLocalDone(r)
    \/ UpstreamChange

SpecHttp == InitHttp /\ [][NextHttp]_vars

\* ------------------------------------------------------------ properties
\* no handler is in flight
Quiescent == \A r \in Reqs : rq[r].pc \in {"new", "done"}

\* activation r of globalReload ends in this step (it returns or throws)
ReloadEnds(r) == Running(r) /\ rl'[r].pc = "ended"

\* C1: when a reload and an upload overlap, then once both have completed
\* the current snapshot holds the uploaded signature: whenever no handler is
\* in flight and the handler that ended last is a reload that returned with
\* the local signatures it had read merged in, every signature an upload
\* has added is in globalSignees.
C1_AddedSignatureSurvivesReload ==
    (Quiescent /\ last.result = "returned" /\ last.local = "fulfilled")
        => added \subseteq SigsOf(globalSignees)

\* C2: a published snapshot is never edited in place: as long as
\* globalSignees is the same Map object, its content does not change.
C2_PublishedSnapshotNotEdited ==
    [][(globalSignees # Null /\ globalSignees' # Null
            /\ globalSignees'.obj = globalSignees.obj)
        => globalSignees' = globalSignees]_vars

C4_HealthyHasSnapshot ==
    (Listening /\ ~crashed /\ globalError = "null") => globalSignees # Null

\* the startup reload has just ended (nothing else has run since)
StartupEnded == last.kind = "startup" /\ nreq = 0 /\ ~crashed

\* the valid records of the local store, as read by getLocalSignatures
ReadableLocal == {f.data : f \in {g \in localStore : g.data # Corrupt}}

\* C5 as stated: when an upstream call fails, the fallback is allowed and
\* holds valid data, the reload raises no error, globalError ends null and
\* the published snapshot is the data loaded from the fallback.
C5_FallbackSnapshotIsFallbackData ==
    (StartupEnded /\ last.gotCached)
        => /\ last.result = "returned"
           /\ globalError = "null"
           /\ globalGist = fileGist.data
           /\ globalSignees = reviveSignees(0, fileSignees)

\* C5 amended: when an upstream call fails, the fallback is allowed and
\* holds valid data, the reload raises no error, globalError ends null and
\* the published snapshot is the data loaded from the fallback with the
\* local signatures that the reload has read merged into it (it is the
\* loaded data itself when no local signature was read).  A startup reload
\* that finds valid fallback files never ends with an error.
C5_FallbackSnapshotIsFallbackDataPlusLocal ==
    /\ (StartupEnded /\ last.gotCached)
          => LET loaded == reviveSignees(0, fileSignees)
                 local == IF last.local = "fulfilled" THEN ReadableLocal ELSE {}
             IN  /\ last.result = "returned"
                 /\ globalError = "null"
                 /\ globalGist = fileGist.data
                 /\ globalSignees.obj = loaded.obj
                 /\ globalSignees.timestamp = loaded.timestamp
                 /\ SigsOf(globalSignees) = SigsOf(loaded) \cup local
                 /\ local = {} => globalSignees = loaded
    /\ (StartupEnded /\ cfg.filecache /\ fileGist.tag = "json" /\ fileSignees.tag = "json")
          => last.ex = "null" /\ globalError = "null" /\ globalSignees # Null

\* the startup reload has loaded the fallback and merged a local signature
C5_Witness ==
    /\ StartupEnded
    /\ last.gotCached
    /\ last.local = "fulfilled"
    /\ ReadableLocal # {}
    /\ ReadableLocal \subseteq SigsOf(globalSignees)

\* C6: a reload that a request asks for never reads the fallback, also when
\* the fallback is configured and holds valid data; when an upstream call
\* fails, its failure is what the requester gets (status 500).
C6_ExplicitReloadNeverReadsFallback ==
    /\ \A r \in 1..MaxReq :
          /\ rl[r].pc \notin {"readGist", "readSignees"}
          /\ ~rl[r].gotCached
          /\ Running(r) => rl[r].disableCache /\ ~rl[r].ignoreErrors
    /\ (last.kind \notin {"none", "startup"})
          => /\ ~last.gotCached
             /\ last.ex \in {"null", "error", "empty"}
             /\ last.ex # "null" => last.result = "thrown" /\ last.status = 500

\* a reload asked for with GET /list/username has failed although the
\* fallback holds valid data
C6_Witness ==
    /\ last.kind = "user"
    /\ last.result = "thrown"
    /\ last.status = 500
    /\ cfg.filecache
    /\ fileGist.tag = "json"
    /\ fileSignees.tag = "json"

\* C7: when an upstream call fails and no fallback is loaded, globalError
\* holds the error when the reload ends (the health state is Degraded),
\* whatever it was before.
C7_FailedReloadEndsDegraded ==
    [][\A r \in Reqs :
          (ReloadEnds(r) /\ last'.ex # "null")
              => InError(globalError') /\ globalError' = last'.ex]_vars

\* a reload has failed while a snapshot was published and the state Healthy
C7_Witness ==
    /\ last.kind = "reload"
    /\ last.result = "thrown"
    /\ InError(globalError)
    /\ globalSignees # Null

\* C8: from the Degraded state that a failed startup leaves (no snapshot
\* has been published yet), a reload asked for with GET /reload whose
\* upstream calls succeed ends with globalError null and with its snapshot
\* published.
C8_SuccessfulReloadEndsHealthy ==
    [][\A r \in 1..MaxReq :
          (ReloadEnds(r) /\ globalSignees = Null /\ last'.result = "returned")
              => /\ globalError' = "null"
                 /\ globalSignees' # Null
                 /\ globalSignees'.obj = r]_vars

\* C9: globalReload with ignoreErrors true never throws, whatever fails;
\* with ignoreErrors false it throws exactly when an upstream call failed
\* and no fallback was loaded.
C9_ThrowsIffNotSilentAndFailed ==
    /\ last.kind = "startup" => last.result = "returned"
    /\ (last.kind \notin {"none", "startup"} /\ last.result # "none")
          => (last.result = "thrown" <=> last.ex # "null")

\* the startup reload has returned although upstream and fallback both failed
C9_Witness ==
    /\ last.kind = "startup"
    /\ last.ex = "aggregate"
    /\ last.result = "returned"
    /\ InError(globalError)

\* C10: at most one activation of globalReload is in its upstream call
\* sequence (getGist, getSignees) at any time.
C10_SingleFlight ==
    Cardinality({r \in Reqs : rl[r].pc \in {"getGist", "getSignatures"}}) <= 1

\* C11: when reloads overlap there is no out-of-order publish: a reload
\* whose data was fetched earlier never replaces a snapshot built from data
\* fetched later.  The upstream history only grows, so a gist with fewer
\* versions was fetched earlier.
C11_NoOutOfOrderPublish ==
    [][(globalGist # Null /\ globalGist' # Null)
        => Len(globalGist'.versions) >= Len(globalGist.versions)]_vars

\* C12: within one reload no getSignatures call starts before getGist has
\* returned, getSignatures is called once per version in the order of
\* gist.versions, each call after the previous one has returned, and after
\* the first failing call the reload makes no further upstream call.
C12_UpstreamCallsInSequence ==
    \A r \in Reqs :
        LET l == rl[r]
            got == l.perVersionSignatures
            upstream == l.pc \in {"getGist", "getSignatures"}
            built == l.signees # Null /\ ~l.gotCached
        IN  /\ l.pc = "getGist" => l.gist = Null /\ got = <<>>
            /\ l.pc = "getSignatures" => l.gist # Null /\ Len(got) < Len(l.gist.versions)
            /\ built => l.gist # Null /\ Len(got) = Len(l.gist.versions)
            /\ (l.pc = "getSignatures" \/ built)
                  => \A k \in 1..Len(got) : \A i \in 1..Len(got[k]) :
                        got[k][i].gist_version = l.gist.versions[k].version
            /\ upstream => l.ex = "null" /\ ~l.gotCached /\ l.signees = Null

\* the call for the second of two versions is in flight, the first has returned
C12_Witness ==
    \E r \in Reqs :
        /\ rl[r].pc = "getSignatures"
        /\ Len(rl[r].gist.versions) = 2
        /\ Len(rl[r].perVersionSignatures) = 1
        /\ rl[r].perVersionSignatures[1] # <<>>

\* the origin of a signature starts with the tag of local signatures
StartsWithLocal(origin) == origin = "local|" \o SignUser

\* C13: when an upload is answered "CLA added succesfully.", the current
\* snapshot holds the new signature in the list of its user, no reload has
\* run for that (globalSignees is the same Map, no activation has moved),
\* and the signature's origin starts with "local|".
C13_AddedSignatureInSnapshot ==
    [][\A r \in 1..MaxReq :
          (rq[r].pc = "writeLocal" /\ rq'[r].pc = "done"
                /\ last'.req = r /\ last'.uploadStatus = "ok")
              => LET sig == rq[r].signature
                 IN  /\ globalSignees' # Null
                     /\ Has(globalSignees'.entries, sig.user)
                     /\ \E i \in 1..Len(globalSignees'.entries[sig.user]) :
                           globalSignees'.entries[sig.user][i] = sig
                     /\ StartsWithLocal(sig.origin)
                     /\ globalSignees'.obj = globalSignees.obj
                     /\ rl' = rl]_vars

\* an upload has been added to the list its user already had
C13_Witness ==
    /\ last.kind = "post"
    /\ last.uploadStatus = "ok"
    /\ \E sig \in added :
          /\ sig \in SigsOf(globalSignees)
          /\ Len(globalSignees.entries[sig.user]) >= 2

\* how often a map holds a signature
Occurrences(map, sig) ==
    Cardinality({p \in {<<u, i>> : u \in DOMAIN map.entries, i \in 1..3} :
                    p[2] <= Len(map.entries[p[1]]) /\ map.entries[p[1]][p[2]] = sig})

\* C14: a local signature that was added successfully is contained,
\* exactly once, in the snapshot that every later successful reload
\* publishes: when a reload that has read the local signatures returns,
\* every signature that had been added before it was called is in
\* globalSignees once.
C14_AddedSignatureInLaterSnapshots ==
    [][\A r \in Reqs :
          (ReloadEnds(r) /\ last'.result = "returned" /\ last'.local = "fulfilled")
              => \A sig \in rl[r].addedBefore :
                    globalSignees' # Null /\ Occurrences(globalSignees', sig) = 1]_vars

\* The ordering rule, for the three ways to place a signature that has no
\* gist_committed_at: before every version date, after every one, or
\* tying with every one.
Readings == {"first", "last", "tie"}

committedKey(sig, reading) ==
    IF sig.gist_committed_at # Undefined THEN sig.gist_committed_at
    ELSE IF reading = "first" THEN 99 ELSE 0

\* b has a greater (created_at, gist_committed_at, updated_at) key than a
GreaterKey(b, a, reading) ==
    LET tied == IF reading = "tie"
                THEN Undefined \in {a.gist_committed_at, b.gist_committed_at}
                        \/ a.gist_committed_at = b.gist_committed_at
                ELSE committedKey(a, reading) = committedKey(b, reading)
    IN  \/ b.created_at > a.created_at
        \/ /\ b.created_at = a.created_at
           /\ \/ ~tied /\ committedKey(b, reading) > committedKey(a, reading)
              \/ tied /\ b.updated_at > a.updated_at

Ordered(list, reading) ==
    \A i \in 1..Len(list) : \A j \in 1..Len(list) :
        i < j => ~GreaterKey(list[j], list[i], reading)

\* C15: in every published snapshot each user's list is ordered by
\* created_at descending, then gist_committed_at descending, then
\* updated_at descending (so that its first element has the greatest key),
\* under at least one reading of the rule for a missing gist_committed_at.
C15_ListsOrdered ==
    globalSignees # Null
        => \A u \in DOMAIN globalSignees.entries :
              \E reading \in Readings : Ordered(globalSignees.entries[u], reading)

\* C16: writeCacheFile followed by readCacheFile yields an equal gist and an
\* equal signee map, every field of every signature and the timestamp
\* included: what a reload is about to save at line 161 is what reading
\* the saved files would give.
C16_SaveLoadRoundTrip ==
    \A r \in Reqs :
        rl[r].pc = "writeGist"
            => /\ gistJson(rl[r].gist).data = rl[r].gist
               /\ reviveSignees(r, signeesJson(rl[r].signees)) = rl[r].signees

\* nothing has changed the local store since the service started
StoreUntouched == added = {} /\ localStore \in {{}, {OldLocal}}

\* activation r publishes in this step, right after another reload that
\* published upstream data has ended, with the upstream data and the local
\* store unchanged all along
SecondReload(r) ==
    /\ ReloadEnds(r)
    /\ last'.result = "returned"
    /\ last.result = "returned" /\ last.ex = "null" /\ ~last.gotCached
    /\ globalSignees # Null
    /\ epoch = 0
    /\ StoreUntouched

SameSignatories(a, b) ==
    /\ DOMAIN a.entries = DOMAIN b.entries
    /\ \A u \in DOMAIN a.entries :
          {a.entries[u][i] : i \in 1..Len(a.entries[u])}
              = {b.entries[u][i] : i \in 1..Len(b.entries[u])}

C18_EmptyHistoryFails ==
    /\ [](\A r \in Reqs :
            /\ rl[r].gist # Null => Len(rl[r].gist.versions) >= 1
            /\ rl[r].ex = "empty"
                  => /\ rl[r].pc # "getSignatures"
                     /\ rl[r].perVersionSignatures = <<>>
                     /\ rl[r].signees = Null)
    /\ [](globalGist # Null => Len(globalGist.versions) >= 1)
    /\ [][\A r \in Reqs :
            (ReloadEnds(r) /\ last'.ex = "empty")
                => /\ globalError' = "empty"
                   /\ globalSignees' = globalSignees
                   /\ rq[r].kind # "startup"
                         => last'.result = "thrown" /\ last'.status = 500]_vars

\* an explicit reload has failed on an empty history
C18_Witness ==
    /\ last.kind = "reload"
    /\ last.ex = "empty"
    /\ last.result = "thrown"
    /\ globalError = "empty"

\* C19: two successful uploads by the same user never overwrite each
\* other: the local store holds a readable record of every signature that
\* an upload has added.
C19_UploadsNeverOverwrite == added \subseteq ReadableLocal

\* a form lacks the name, the e-mail or the signed date
Incomplete(formData) ==
    formData.signerName = "" \/ formData.signerEmail = "" \/ formData.signedDate = Undefined

\* C20: an upload whose form lacks the name, the e-mail or the signed date
\* is answered with the "... is required." error, writes nothing to the
\* local signature store and leaves the current snapshot as it is.
C20_IncompleteFormRejected ==
    [][\A r \in 1..MaxReq :
          (cfg.filelocal /\ rq[r].pc = "upload" /\ Incomplete(rq[r].formData)
                /\ rq'[r] # rq[r] /\ ~crashed')
              => /\ last'.req = r
                 /\ last'.uploadStatus = "required"
                 /\ localStore' = localStore
                 /\ globalSignees' = globalSignees
                 /\ added' = added]_vars

\* an incomplete upload has been answered while a snapshot was published
C20_Witness ==
    /\ last.kind = "post"
    /\ last.uploadStatus = "required"
    /\ last.status = 200
    /\ globalSignees # Null

\* request r arrives in this step, and its handler runs up to its first await
Arrives(r) == rq[r].pc = "new" /\ rq'[r].pc # "new"

\* the handler of request r, which arrives in this step, has answered
AnsweredAtOnce(r) == rq'[r].pc = "done" /\ last'.req = r

\* the route of the request that arrives in this step
ArrivingKind(r) == IF rq'[r].pc = "done" THEN last'.kind ELSE rq'[r].kind

\* C21: while globalError is set, every request to /list and to
\* /list/username, whatever BASE is, is answered with 503 at once: its
\* handler does not run, so it neither reads the snapshot nor reloads.
C21_ErrorStateAnswers503 ==
    [][\A r \in 1..MaxReq :
          (Arrives(r) /\ ArrivingKind(r) \in {"list", "user", "post"}
                /\ InError(globalError))
              => /\ AnsweredAtOnce(r)
                 /\ last'.status = 503
                 /\ rl'[r] = rl[r]]_vars

\* the request that arrives in this step carries ?reload=true
ArrivingReload(r) == IF rq'[r].pc = "done" THEN last'.reload ELSE rq'[r].reload

\* the activation that GET /reload starts in the current state
ReloadActivation == [globalReload(FALSE, TRUE) EXCEPT !.addedBefore = added]

TurnedAway(r) ==
    /\ AnsweredAtOnce(r)
    /\ \/ last'.status = 503 /\ InError(globalError) /\ cfg.base = "/"
       \/ last'.status = 401 /\ last'.kind = "list" /\ needsAuthorization(last', "list")
    /\ rl' = rl
    /\ globalError' = globalError
    /\ globalGist' = globalGist
    /\ globalSignees' = globalSignees

Held(signees, username) ==
    IF signees = Null THEN <<>>
    ELSE IF ~Has(signees.entries, username) THEN <<>>
    ELSE signees.entries[username]

\* C23: a text/html GET /list/username without ?reload=true that arrives
\* while globalError is not set is answered 404 when the snapshot holds no
\* signature for the name, 410 when the first signature of the name's list
\* has a revocation timestamp, and 200 otherwise.
C23_UserStatus ==
    [][\A r \in 1..MaxReq :
          (Arrives(r) /\ ArrivingKind(r) = "user" /\ ~ArrivingReload(r)
                /\ ~InError(globalError))
              => /\ AnsweredAtOnce(r)
                 /\ last'.format = "text"
                       => last'.status =
                            LET list == Held(globalSignees, last'.username)
                            IN  IF list = <<>> THEN 404
                                ELSE IF list[1].revoked_at # Undefined THEN 410
                                ELSE 200]_vars

\* C24: authorization is demanded only when the credential list is set:
\* without CLA_LIST_AUTH no /list request is answered 401, and without
\* CLA_SIGN_AUTH every upload to /list (CLA_FILELOCAL set) is taken; with
\* a list set, a request is authorized exactly when its credential is an
\* element of the list.
C24_AuthorizationOnlyWhenConfigured ==
    (last.kind \in {"list", "post"} /\ last.status # 503)
        => /\ ~cfg.listAuth => last.status # 401
           /\ (last.kind = "post" /\ cfg.filelocal /\ ~cfg.signAuth)
                 => last.uploadStatus # "none"
           /\ (cfg.listAuth /\ last.kind = "list")
                 => (last.status = 401 <=> last.authorization \notin ListCredentials)
           /\ (last.kind = "post" /\ cfg.filelocal /\ cfg.signAuth)
                 => (last.uploadStatus # "none" <=> last.authorization \in SignCredentials)

\* the handler of GET /list/username request r answers in this step
UserAnswered(r) ==
    /\ rq[r].pc # "done"
    /\ rq'[r].pc = "done"
    /\ last'.req = r
    /\ last'.kind = "user"

\* signature a is signature b, the private fields apart
SameButPrivate(a, b) ==
    /\ [a EXCEPT !.custom_fields = <<>>] = [b EXCEPT !.custom_fields = <<>>]
    /\ DOMAIN a.custom_fields = DOMAIN b.custom_fields
    /\ \A key \in DOMAIN a.custom_fields \ AuthFields :
          a.custom_fields[key] = b.custom_fields[key]

\* C25: with CLA_AUTH_FIELDS set, the signatures in the answer to a
\* /list/username request that is not authorized are the snapshot's
\* signatures for the name with every private field absent and everything
\* else as it is; answering does not change the snapshot (when the handler
\* does not reload, globalSignees is left as it was), and the answer to an
\* authorized request is the snapshot's list itself, private fields included.
C25_PrivateFieldsCensored ==
    [][\A r \in 1..MaxReq :
          (cfg.authFields /\ UserAnswered(r))
              => /\ Arrives(r) => globalSignees' = globalSignees
                 /\ (last'.status = 200 /\ last'.format = "json")
                       => LET sent == last'.body.signatures
                              held == Held(globalSignees', last'.username)
                          IN  IF needsAuthorization(last', "list")
                              THEN /\ Len(sent) = Len(held)
                                   /\ \A i \in 1..Len(sent) :
                                         /\ SameButPrivate(sent[i], held[i])
                                         /\ \A key \in AuthFields :
                                               sent[i].custom_fields[key] = "undefined"
                              ELSE sent = held
                 /\ last'.format = "text" => last'.body.signatures = <<>>]_vars

\* a request without credentials has been answered with bob's signatures,
\* the employer left out, while the snapshot still holds the employer
C25_Witness ==
    /\ cfg.authFields
    /\ last.kind = "user"
    /\ last.format = "json"
    /\ last.status = 200
    /\ last.authorization = "none"
    /\ last.username = "bob"
    /\ last.body.signatures # <<>>
    /\ last.body.signatures[1].custom_fields.employer = "undefined"
    /\ Held(globalSignees, "bob") # <<>>
    /\ Held(globalSignees, "bob")[1].custom_fields.employer \in {"acme", "none"}

\* the string `word` occurs in the string `text`
Contains(text, word) ==
    \E i \in 1..(Len(text) - Len(word) + 1) : SubSeq(text, i, i + Len(word) - 1) = word

HoldsToken(text) == Contains(text, GITHUB_ORGTOKEN)

SignatureHoldsToken(signature) ==
    \/ \E text \in {signature._id, signature.user, signature.gist_version,
                    signature.gist_filename, signature.origin} : HoldsToken(text)
    \/ \E key \in DOMAIN signature.custom_fields : HoldsToken(signature.custom_fields[key])

GistHoldsToken(gist) ==
    \/ HoldsToken(gist.url)
    \/ HoldsToken(gist.filename)
    \/ \E k \in 1..Len(gist.versions) :
          HoldsToken(gist.versions[k].version) \/ HoldsToken(gist.versions[k].url)

\* the body of the upstream request that activation r has in flight
InFlight(r) ==
    IF rl[r].pc = "getGist" THEN getGistRequest
    ELSE IF rl[r].pc = "getSignatures"
    THEN getAllRequest(rl[r].gist.versions[Len(rl[r].perVersionSignatures) + 1].version)
    ELSE [token |-> "undefined"]

\* C26: GITHUB_ORGTOKEN is sent upstream only in the requests of
\* getSignatures, and it occurs in no response body (the message of /status
\* and the error answers included), in no signature or gist of the snapshot,
\* of the file cache or of the local signature store.
C26_TokenNotDisclosed ==
    /\ \A r \in Reqs : HoldsToken(InFlight(r).token) => rl[r].pc = "getSignatures"
    /\ ~HoldsToken(last.body.text)
    /\ \A i \in 1..Len(last.body.signatures) : ~SignatureHoldsToken(last.body.signatures[i])
    /\ \A signature \in SigsOf(globalSignees) : ~SignatureHoldsToken(signature)
    /\ globalGist # Null => ~GistHoldsToken(globalGist)
    /\ fileGist.tag = "json" => ~GistHoldsToken(fileGist.data)
    /\ fileSignees.tag = "json"
          => \A u \in DOMAIN fileSignees.data.entries :
                \A i \in 1..Len(fileSignees.data.entries[u]) :
                    ~SignatureHoldsToken(fileSignees.data.entries[u][i])
    /\ \A f \in localStore : f.data # Corrupt => ~SignatureHoldsToken(f.data)

\* GET /status has been answered 503 with the message of an upstream error
\* while a getSignatures request, which carries the token, is in flight
C26_Witness ==
    /\ last.kind = "status"
    /\ last.status = 503
    /\ last.body.text = "error"
    /\ \E r \in Reqs : HoldsToken(InFlight(r).token)

\* the signatures of the snapshot that a lookup by `name` is to find when
\* CLA_LOOKUP_FIELDS is `employer`: those of the user of that name and
\* those whose custom field employer has that value
Matching(signees, name) ==
    {signature \in SigsOf(signees) :
        signature.user = name \/ signature.custom_fields.employer = name}

\* C27: with CLA_LOOKUP_FIELDS set to employer, GET /list/name finds the
\* signatures of every user whose employer is that name: when the snapshot
\* holds such signatures the answer is not 404, and the json answer is one
\* list that holds them all.
C27_LookupByCustomField ==
    [][\A r \in 1..MaxReq :
          (UserAnswered(r) /\ Arrives(r) /\ ~InError(globalError)
                /\ Matching(globalSignees, last'.username) # {})
              => /\ last'.status # 404
                 /\ last'.format = "json"
                       => Len(last'.body.signatures)
                            = Cardinality(Matching(globalSignees, last'.username))]_vars

\* activation r, every upstream call of which has succeeded, sees one of
\* its two cache file writes fail in this step and ends in it
SaveFailsAndEnds(r) ==
    /\ ReloadEnds(r)
    /\ \/ rl[r].pc = "writeGist"
       \/ rl[r].pc = "writeSignees" /\ fileSignees' # signeesJson(rl[r].signees)

\* C28: when all upstream calls of a reload succeed and a write of the
\* file cache fails, the reload still succeeds: it returns without an
\* error, its snapshot is published, and globalError is null at its end.
C28_SaveFailureDoesNotFail ==
    [][\A r \in Reqs :
          SaveFailsAndEnds(r)
              => /\ last'.result = "returned"
                 /\ last'.ex = "null"
                 /\ last'.status # 500
                 /\ globalSignees' # Null
                 /\ globalSignees'.obj = r
                 /\ globalGist' = rl[r].gist
                 /\ globalError' = "null"]_vars

\* C29: a failure to load the local signatures is handled inside the
\* reload, whether its upstream part succeeds or fails: the process lives
\* on, and the reload ends as a reload with an empty local store does (it
\* publishes the upstream or fallback data as loaded and returns, or fails
\* with the upstream error).
C29_LocalFailureHandled ==
    /\ [](~crashed)
    /\ [][\A r \in Reqs :
            (ReloadEnds(r) /\ last'.local = "rejected")
                => IF last'.ex = "null"
                   THEN /\ last'.result = "returned"
                        /\ globalSignees' = rl[r].signees
                        /\ globalGist' = rl[r].gist
                   ELSE /\ globalSignees' = globalSignees
                        /\ globalError' = last'.ex]_vars

\* the elements of an array, as a set
Elements(array) == {array[k] : k \in 1..Len(array)}

LoadFails(r) ==
    \/ rl[r].ex = "aggregate"
    \/ rl[r].pc = "readGist" /\ fileGist.tag # "json"
    \/ rl[r].pc = "readSignees" /\ fileSignees.tag # "json"

\* activation r returns in this step and publishes what it holds
Publishes(r) == ReloadEnds(r) /\ last'.req = r /\ last'.result = "returned"

\* C31: when the fallback load fails on either of its two files, nothing it
\* read is adopted: a reload whose load has failed does not publish a gist
\* or a signee map that readCacheFile returned to it.
C31_FailedLoadAdoptsNothing ==
    [][\A r \in Reqs :
          Publishes(r) /\ LoadFails(r)
          => /\ ~("gist" \in rl[r].loaded /\ globalGist' = rl[r].gist)
             /\ ~("signees" \in rl[r].loaded /\ globalSignees' # Null)]_vars

\* the upstream calls of the activation l have all succeeded: it holds the
\* gist of getGist and the map getSignees built from the answers for every
\* version, and has not entered the catch block
UpstreamSucceeded(l) ==
    /\ l.ex = "null" /\ ~l.gotCached /\ l.loaded = {}
    /\ l.gist # Null /\ l.signees # Null
    /\ Len(l.perVersionSignatures) = Len(l.gist.versions)

\* C32: the file fallback is written only by a reload whose upstream calls
\* all succeeded: every step that changes gist.json or signees.json is a
\* step of an activation of globalReload that is at one of its two writes
\* and whose upstream calls have all succeeded; a reload that has failed,
\* a reload that has loaded the fallback and an upload change neither file.
C32_FallbackWrittenOnlyAfterUpstreamSuccess ==
    [][fileGist' # fileGist \/ fileSignees' # fileSignees
       => \E r \in Reqs :
             /\ rl[r].pc \in {"writeGist", "writeSignees"}
             /\ rl'[r] # rl[r]
             /\ UpstreamSucceeded(rl[r])]_vars

\* a reload has written the fallback and an upload has been added since
C32_Witness ==
    /\ fileSignees.tag = "json" /\ fileSignees.data.timestamp = 0
    /\ added # {}

\* no step of globalReload is taken: no running activation moves
NoReloadStep == \A r \in Reqs : Running(r) => rl'[r] = rl[r]

\* the subjects whose list differs between the maps a and b
SubjectsChanged(a, b) ==
    {u \in DOMAIN a.entries \cup DOMAIN b.entries :
        \/ u \notin DOMAIN a.entries
        \/ u \notin DOMAIN b.entries
        \/ a.entries[u] # b.entries[u]}

\* the subjects of the uploads whose signature is written in this step
UploadingSubjects ==
    {rq[r].formData.signerEmail : r \in {q \in Reqs : rq[q].pc = "writeLocal"}}

\* C33: globalError changes only inside globalReload: a step of the running
\* process that is no step of globalReload (the arrival of a request, a
\* read, an upload that is accepted or rejected) leaves globalError and
\* globalGist as they are, keeps the signee map object, and changes the list
\* of no subject other than that of a signature being uploaded; if no upload
\* writes its signature in that step, globalSignees does not change at all.
C33_OnlyReloadChangesHealth ==
    [][NoReloadStep /\ ~crashed'
       => /\ globalError' = globalError
          /\ globalGist' = globalGist
          /\ IF globalSignees = Null \/ UploadingSubjects = {}
             THEN globalSignees' = globalSignees
             ELSE /\ globalSignees' # Null
                  /\ globalSignees'.obj = globalSignees.obj
                  /\ globalSignees'.timestamp = globalSignees.timestamp
                  /\ SubjectsChanged(globalSignees, globalSignees')
                         \subseteq UploadingSubjects]_vars

\* an upload was added to a snapshot that holds another subject, while the
\* service was in error
C33_Witness ==
    /\ last.kind = "post" /\ last.uploadStatus = "ok"
    /\ InError(globalError)
    /\ globalSignees # Null
    /\ "alice" \in DOMAIN globalSignees.entries
    /\ "bob" \in DOMAIN globalSignees.entries

\* C34: when reloads overlap, then once all of them have completed
\* globalError tells the outcome of the one that completed last: whenever a
\* reload called by a request ends and leaves no activation of globalReload
\* running, globalError is null if it returned and an error if it threw.
C34_LastReloadDecidesHealth ==
    [][\A r \in 1..MaxReq :
          (ReloadEnds(r) /\ last'.req = r /\ \A o \in Reqs : rl'[o].pc \in {"idle", "ended"})
              => (last'.result = "returned" <=> ~InError(globalError'))]_vars

\* the gist and the entries of a signee map are what one run of getGist and
\* getSignees can return: the gist is the upstream gist of some time e0 and
\* the entries are built from the answers, for its versions in their order,
\* that the upstream gave at that time or later
FetchedTogether(gist, entries) ==
    \E e0 \in 0..MaxEpoch :
        /\ gist = gistOf(HistoryAt(e0))
        /\ \E es \in [1..Len(gist.versions) -> e0..MaxEpoch] :
              /\ \A j, k \in 1..Len(gist.versions) : j < k => es[j] <= es[k]
              /\ entries =
                    BuildSignees(0, [k \in 1..Len(gist.versions) |->
                                        getSignatures(gist, GetAllAt(es[k], gist.versions[k].version))]).entries

\* C35: the two files of the file cache always come from the same reload,
\* also when reloads overlap or when the second write of a save fails:
\* whenever no reload is between its two writes and both files can be read,
\* gist.json and signees.json hold a gist and a signee map that one upstream
\* fetch returned together.
C35_FallbackBlobsFromOneReload ==
    ((\A r \in Reqs : rl[r].pc # "writeSignees")
        /\ fileGist.tag = "json" /\ fileSignees.tag = "json")
    => FetchedTogether(fileGist.data, fileSignees.data.entries)

\* C36: after every reload, successful or failed, the published gist and
\* the published signee map belong together: when an activation of
\* globalReload ends, either globalGist and globalSignees are both as they
\* were before, or its upstream calls all succeeded or its fallback load
\* succeeded and globalGist is the gist it obtained and globalSignees the map
\* it built from that fetch or that load; a gist is never published with a
\* missing or an older map.
C36_PublishedPairBelongsTogether ==
    [][\A r \in Reqs :
          (ReloadEnds(r) /\ last'.req = r)
          => \/ globalGist' = globalGist /\ globalSignees' = globalSignees
             \/ /\ last'.gotCached \/ last'.ex = "null"
                /\ globalGist' # Null /\ globalGist' = rl[r].gist
                /\ globalSignees' # Null /\ globalSignees'.obj = r]_vars

\* the local signatures that the entries of a signee map hold
LocalIn(entries) ==
    {sig \in SigsOf([entries |-> entries]) : StartsWithLocal(sig.origin)}

\* C37: the file cache never holds a local signature: signees.json, whenever
\* it can be read, holds no signature whose origin is local; and the
\* snapshot published by a reload that has loaded the file cache and merged
\* the local signatures holds every local signature once.
C37_FallbackHoldsNoLocalSignature ==
    /\ fileSignees.tag = "json" => LocalIn(fileSignees.data.entries) = {}
    /\ (StartupEnded /\ last.gotCached /\ globalSignees # Null)
          => \A sig \in LocalIn(globalSignees.entries) :
                Occurrences(globalSignees, sig) = 1

\* a reload has saved its map and has published it with a local signature
\* merged in
C37_Witness ==
    /\ fileSignees.tag = "json" /\ fileSignees.data.timestamp = 0
    /\ StartupEnded /\ last.local = "fulfilled"
    /\ globalSignees # Null /\ LocalIn(globalSignees.entries) # {}

\* the file cache was loaded and a local signature merged into what was loaded
C37_WitnessLoaded ==
    /\ StartupEnded /\ last.gotCached /\ last.local = "fulfilled"
    /\ globalSignees # Null /\ LocalIn(globalSignees.entries) # {}

\* how often the array holds x
Count(array, x) == Cardinality({k \in 1..Len(array) : array[k] = x})

\* how often the lists of the map hold x
CountIn(map, x) ==
    Cardinality({p \in UNION {{<<u, i>> : i \in 1..Len(map.entries[u])} :
                                u \in DOMAIN map.entries} :
                    map.entries[p[1]][p[2]] = x})

\* what getSignatures has returned to activation r for all versions, the
\* answer that arrives in this step included
Fetched(r) ==
    LET l == rl[r]
    IN  IF l.pc = "getSignatures"
        THEN Flat(l.perVersionSignatures)
             \o getSignatures(l.gist,
                              GetAllAt(epoch, l.gist.versions[Len(l.perVersionSignatures) + 1].version))
        ELSE Flat(l.perVersionSignatures)

\* how often getLocalSignatures has returned x to activation r, which ends
\* in this step: in what it returned earlier, or in the store it reads now
CountLocal(r, x) ==
    IF rl[r].localPromise = "fulfilled" THEN Count(rl[r].signatures, x)
    ELSE IF last'.local = "fulfilled" THEN Cardinality({f \in localStore : f.data = x})
    ELSE 0

\* C38: building a snapshot neither loses nor duplicates a signature: when
\* a reload whose upstream calls all succeeded publishes, globalSignees
\* holds every signature as often as getSignatures returned it for all the
\* versions plus as often as getLocalSignatures returned it, and every
\* signature is in the list kept under its own user.
C38_BuildKeepsEverySignatureOnce ==
    [][\A r \in Reqs :
          (Publishes(r) /\ last'.ex = "null" /\ ~last'.gotCached)
          => /\ globalSignees' # Null
             /\ \A u \in DOMAIN globalSignees'.entries :
                   \A i \in 1..Len(globalSignees'.entries[u]) :
                       globalSignees'.entries[u][i].user = u
             /\ \A x \in SigsOf(globalSignees') \cup Elements(Fetched(r))
                          \cup Elements(rl[r].signatures) \cup {f.data : f \in localStore} :
                   x # Corrupt
                   => CountIn(globalSignees', x) = Count(Fetched(r), x) + CountLocal(r, x)]_vars

\* a snapshot was built from two versions and a local signature: its lists
\* hold two signatures of alice, and one of bob from each source
C38_Witness ==
    /\ last.result = "returned" /\ last.ex = "null" /\ ~last.gotCached
    /\ last.local = "fulfilled"
    /\ globalSignees # Null /\ globalSignees.obj = last.req
    /\ "alice" \in DOMAIN globalSignees.entries
    /\ "bob" \in DOMAIN globalSignees.entries
    /\ Len(globalSignees.entries["alice"]) = 2
    /\ Len(globalSignees.entries["bob"]) = 2

\* the signatures of one list of a map, as a set
ListOf(map, u) == Elements(map.entries[u])

\* C39: signatureComparer is a consistent ordering of the signatures that
\* occur in a snapshot, local ones and ones without gist_committed_at
\* included: for all signatures a, b, c of the published map,
\* signatureComparer(a, b) and signatureComparer(b, a) have opposite signs or
\* are both 0, the rule is transitive, and sorting the signatures of a list
\* gives the same array whatever the order in which they are inserted.
C39_ComparerIsConsistentOrdering ==
    globalSignees # Null
    => LET all == SigsOf(globalSignees)
       IN  /\ \A a, b \in all :
                 signatureComparer(a, b) = 0 - signatureComparer(b, a)
           /\ \A a, b, c \in all :
                 (signatureComparer(a, b) <= 0 /\ signatureComparer(b, c) <= 0)
                     => signatureComparer(a, c) <= 0
           /\ \A u \in DOMAIN globalSignees.entries :
                 \A o1, o2 \in Orders(ListOf(globalSignees, u)) : Sort(o1) = Sort(o2)

====
